---- MODULE Spec2Model ----
(***************************************************************************)
(* Model of service/storage/storage.py: generate_gcs_signed_url.           *)
(*                                                                         *)
(* Several callers invoke generate_gcs_signed_url concurrently against one *)
(* storage backend whose objects are uploaded and deleted by third         *)
(* parties.  Each call is followed statement by statement: the existence   *)
(* query, the three logging statements, the signing call and the except    *)
(* handler are separate steps, so that every interleaving of the calls     *)
(* with each other and with the backend is explored.                       *)
(*                                                                         *)
(* Python values are tagged records, exceptions are records naming the     *)
(* exception class, and a name used by the function body is resolved       *)
(* against the names the module binds and the builtins, as Python does.    *)
(* storage.Client() is taken to succeed (ambient credentials present), and *)
(* the expirations drawn are within the range of datetime.timedelta.       *)
(***************************************************************************)
EXTENDS Integers, Sequences, FiniteSets, TLC

\* The concurrent callers.
Callers == {"c1", "c2"}

\* Invocations each caller makes, one after the other.
MaxCalls == 1

----------------------------------------------------------------------------
\* Python values

PyNone == [type |-> "NoneType"]

PyStr(s) == [type |-> "str", value |-> s]

PyInt(n) == [type |-> "int", value |-> n]

\* Marks a keyword argument the caller leaves out.
NoArg == [type |-> "omitted"]

\* Truth value of `content_type` as tested by `and content_type`.
Truthy(v) == v.type = "str" /\ v.value # ""

PyExc(cls) == [type |-> "exception", cls |-> cls]

NameError == PyExc("NameError")

----------------------------------------------------------------------------
\* Inputs and backend responses

BucketNames == {"my-bucket"}

BlobNames == {"uploads/new.csv"}

ExpirationInputs == {NoArg, PyInt(30)}

MethodInputs == {NoArg, PyStr("PUT"), PyStr("POST")}

ContentTypeInputs == {NoArg, PyStr(""), PyStr("image/png")}

CallInputs ==
  [bucket_name : BucketNames, blob_name : BlobNames,
   expiration_minutes : ExpirationInputs, method : MethodInputs,
   content_type : ContentTypeInputs]

\* Strings blob.generate_signed_url may return (each signature is fresh).
SignedUrls == {"https://storage.googleapis.com/sig-a", "https://storage.googleapis.com/sig-b"}

\* Errors blob.generate_signed_url may raise (all subclasses of Exception).
SigningErrors == {PyExc("TransportError")}

\* Errors blob.exists may raise (a transient backend failure).
ExistsErrors == {PyExc("ServiceUnavailable")}

----------------------------------------------------------------------------
\* The function's signature and the module's namespace

DefaultExpirationMinutes == 120

DefaultMethod == PyStr("GET")

DefaultContentType == PyNone

\* Binding of the call's arguments to the parameters, defaults filled in.
BindArguments(in) ==
  [bucket_name |-> in.bucket_name,
   blob_name |-> in.blob_name,
   expiration_minutes |-> IF in.expiration_minutes = NoArg
                          THEN PyInt(DefaultExpirationMinutes) ELSE in.expiration_minutes,
   method |-> IF in.method = NoArg THEN DefaultMethod ELSE in.method,
   content_type |-> IF in.content_type = NoArg
                    THEN DefaultContentType ELSE in.content_type]

\* Names bound at module level by the import statements and the def.
ModuleGlobals ==
  {"datetime", "storage", "blob", "Optional", "Union", "generate_gcs_signed_url"}

\* The builtins the function body could resolve a global name against.
Builtins == {"Exception", "str", "int"}

\* LOAD_GLOBAL: a name resolves iff the module or the builtins bind it.
NameIsBound(name) == name \in ModuleGlobals \cup Builtins

\* datetime.timedelta(minutes=m) read as seconds=m: a wrong unit.
TimedeltaOfSeconds(m) ==
  [days |-> m \div 86400, seconds |-> m % 86400, microseconds |-> 0]

\* datetime.timedelta(minutes=m): normalised to days, seconds, microseconds.
Timedelta(m) ==
  [days |-> (m * 60) \div 86400, seconds |-> (m * 60) % 86400, microseconds |-> 0]

TotalSeconds(td) == td.days * 86400 + td.seconds

\* The header bound for every method but GET and whenever a content type is
\* passed, empty or not.
HeadersForAnyWrite(method, content_type) ==
  IF method # PyStr("GET") /\ content_type # PyNone
  THEN [type |-> "dict", items |-> {<<"Content-Type", content_type>>}]
  ELSE PyNone

\* headers = None; if method == 'PUT' and content_type: headers = {...}
Headers(method, content_type) ==
  IF method = PyStr("PUT") /\ Truthy(content_type)
  THEN [type |-> "dict", items |-> {<<"Content-Type", content_type>>}]
  ELSE PyNone

----------------------------------------------------------------------------
VARIABLES
  store,      \* the (bucket, blob) pairs that exist in the backend
  pc,         \* pc[c]: the statement caller c's invocation is at
  inputs,     \* inputs[c]: the arguments caller c passed (NoArg = omitted)
  existsRet,  \* existsRet[c]: what blob_object.exists() gave this call
  signRet,    \* signRet[c]: what generate_signed_url gave this call
  signed_url, \* signed_url[c]: the local variable signed_url
  exc,        \* exc[c]: the exception being handled by the except clause
  backend,    \* backend[c]: the backend calls the invocation made, in order
  logs,       \* logs[c]: the log records the invocation emitted, in order
  outcome,    \* outcome[c]: how the invocation ended (return / raise)
  ncalls      \* ncalls[c]: the invocations caller c has started

vars ==
  <<store, pc, inputs, existsRet, signRet, signed_url, exc, backend, logs, outcome, ncalls>>

\* The invocation has neither returned nor raised.
Pending == [kind |-> "pending"]

\* A local or a response that has no value yet.
NotYet == [type |-> "unset", kind |-> "unset"]

Return(v) == [kind |-> "return", value |-> v]

Raise(e) == [kind |-> "raise", exc |-> e]

\* The parameters kept in one module-level slot that any other invocation in
\* progress overwrites.
ParamsInSharedSlot(c) ==
  LET others == {d \in Callers \ {c} : pc[d] \notin {"idle", "done"}} IN
    IF others = {} THEN BindArguments(inputs[c])
    ELSE BindArguments(inputs[CHOOSE d \in others : TRUE])

\* The parameters of caller c's invocation (locals of its own frame).
Params(c) == BindArguments(inputs[c])

\* The keyword arguments of blob_object.generate_signed_url(...).
SignRequest(p) ==
  [op |-> "generate_signed_url",
   version |-> "v4",
   expiration |-> Timedelta(p.expiration_minutes.value),
   method |-> p.method,
   headers |-> Headers(p.method, p.content_type)]

\* A record handed to the logging module.
LogRecord(level) == [level |-> level]

Init ==
  /\ store \in SUBSET (BucketNames \X BlobNames)
  /\ pc = [c \in Callers |-> "idle"]
  /\ inputs = [c \in Callers |-> NotYet]
  /\ existsRet = [c \in Callers |-> NotYet]
  /\ signRet = [c \in Callers |-> NotYet]
  /\ signed_url = [c \in Callers |-> NotYet]
  /\ exc = [c \in Callers |-> NotYet]
  /\ backend = [c \in Callers |-> <<>>]
  /\ logs = [c \in Callers |-> <<>>]
  /\ outcome = [c \in Callers |-> Pending]
  /\ ncalls = [c \in Callers |-> 0]

----------------------------------------------------------------------------
\* The backend, as changed by other parties

Upload(o) ==
  /\ o \notin store
  /\ store' = store \cup {o}
  /\ UNCHANGED <<pc, inputs, existsRet, signRet, signed_url, exc, backend, logs, outcome, ncalls>>

Delete(o) ==
  /\ o \in store
  /\ store' = store \ {o}
  /\ UNCHANGED <<pc, inputs, existsRet, signRet, signed_url, exc, backend, logs, outcome, ncalls>>

----------------------------------------------------------------------------
\* generate_gcs_signed_url, statement by statement

\* The call: arguments bound; client, bucket and blob handles built.
Call(c, in) ==
  /\ pc[c] \in {"idle", "done"}
  /\ ncalls[c] < MaxCalls
  /\ ncalls' = [ncalls EXCEPT ![c] = @ + 1]
  /\ inputs' = [inputs EXCEPT ![c] = in]
  /\ pc' = [pc EXCEPT ![c] = "exists"]
  /\ existsRet' = [existsRet EXCEPT ![c] = NotYet]
  /\ signRet' = [signRet EXCEPT ![c] = NotYet]
  /\ signed_url' = [signed_url EXCEPT ![c] = NotYet]
  /\ exc' = [exc EXCEPT ![c] = NotYet]
  /\ backend' = [backend EXCEPT ![c] = <<>>]
  /\ logs' = [logs EXCEPT ![c] = <<>>]
  /\ outcome' = [outcome EXCEPT ![c] = Pending]
  /\ store' = store

\* if not blob_object.exists(): the backend answers from its current state.
ExistsAnswers(c) ==
  /\ pc[c] = "exists"
  /\ LET found == <<Params(c).bucket_name, Params(c).blob_name>> \in store IN
       /\ existsRet' = [existsRet EXCEPT ![c] = Return(found)]
       /\ pc' = [pc EXCEPT ![c] = IF found THEN "try" ELSE "log_warning"]
  /\ backend' = [backend EXCEPT ![c] = Append(@, [op |-> "exists"])]
  /\ UNCHANGED <<store, inputs, signRet, signed_url, exc, logs, outcome, ncalls>>

\* blob_object.exists() raises: it is outside the try, so the call raises.
ExistsRaises(c, e) ==
  /\ pc[c] = "exists"
  /\ existsRet' = [existsRet EXCEPT ![c] = Raise(e)]
  /\ backend' = [backend EXCEPT ![c] = Append(@, [op |-> "exists"])]
  /\ outcome' = [outcome EXCEPT ![c] = Raise(e)]
  /\ pc' = [pc EXCEPT ![c] = "done"]
  /\ UNCHANGED <<store, inputs, signRet, signed_url, exc, logs, ncalls>>

\* logging.warning(...); return None.  The statement is outside the try.
LogWarning(c) ==
  /\ pc[c] = "log_warning"
  /\ IF NameIsBound("logging")
     THEN /\ logs' = [logs EXCEPT ![c] = Append(@, LogRecord("warning"))]
          /\ outcome' = [outcome EXCEPT ![c] = Return(PyNone)]
     ELSE /\ logs' = logs
          /\ outcome' = [outcome EXCEPT ![c] = Raise(NameError)]
  /\ pc' = [pc EXCEPT ![c] = "done"]
  /\ UNCHANGED <<store, inputs, existsRet, signRet, signed_url, exc, backend, ncalls>>

\* try: expiration_time, headers, signed_url = generate_signed_url(...)
SignReturns(c, u) ==
  /\ pc[c] = "try"
  /\ backend' = [backend EXCEPT ![c] = Append(@, SignRequest(Params(c)))]
  /\ signRet' = [signRet EXCEPT ![c] = Return(PyStr(u))]
  /\ signed_url' = [signed_url EXCEPT ![c] = PyStr(u)]
  /\ pc' = [pc EXCEPT ![c] = "log_info"]
  /\ UNCHANGED <<store, inputs, existsRet, exc, logs, outcome, ncalls>>

\* generate_signed_url(...) raises inside the try: control goes to except.
SignRaises(c, e) ==
  /\ pc[c] = "try"
  /\ backend' = [backend EXCEPT ![c] = Append(@, SignRequest(Params(c)))]
  /\ signRet' = [signRet EXCEPT ![c] = Raise(e)]
  /\ exc' = [exc EXCEPT ![c] = e]
  /\ pc' = [pc EXCEPT ![c] = "except"]
  /\ UNCHANGED <<store, inputs, existsRet, signed_url, logs, outcome, ncalls>>

\* logging.info(...); return signed_url.  Still inside the try, so an
\* exception raised by the statement is caught by `except Exception`.
LogInfo(c) ==
  /\ pc[c] = "log_info"
  /\ IF NameIsBound("logging")
     THEN /\ logs' = [logs EXCEPT ![c] = Append(@, LogRecord("info"))]
          /\ outcome' = [outcome EXCEPT ![c] = Return(signed_url[c])]
          /\ pc' = [pc EXCEPT ![c] = "done"]
          /\ exc' = exc
     ELSE /\ exc' = [exc EXCEPT ![c] = NameError]
          /\ pc' = [pc EXCEPT ![c] = "except"]
          /\ UNCHANGED <<logs, outcome>>
  /\ UNCHANGED <<store, inputs, existsRet, signRet, signed_url, backend, ncalls>>

\* except Exception as e: logging.error(...); return None.  An exception
\* raised inside the handler leaves the function.
ExceptHandler(c) ==
  /\ pc[c] = "except"
  /\ IF NameIsBound("logging")
     THEN /\ logs' = [logs EXCEPT ![c] = Append(@, LogRecord("error"))]
          /\ outcome' = [outcome EXCEPT ![c] = Return(PyNone)]
     ELSE /\ logs' = logs
          /\ outcome' = [outcome EXCEPT ![c] = Raise(NameError)]
  /\ pc' = [pc EXCEPT ![c] = "done"]
  /\ UNCHANGED <<store, inputs, existsRet, signRet, signed_url, exc, backend, ncalls>>

Next ==
  \/ \E o \in BucketNames \X BlobNames : Upload(o)
  \/ \E o \in BucketNames \X BlobNames : Delete(o)
  \/ \E c \in Callers, in \in CallInputs : Call(c, in)
  \/ \E c \in Callers : ExistsAnswers(c)
  \/ \E c \in Callers, e \in ExistsErrors : ExistsRaises(c, e)
  \/ \E c \in Callers : LogWarning(c)
  \/ \E c \in Callers, u \in SignedUrls : SignReturns(c, u)
  \/ \E c \in Callers, e \in SigningErrors : SignRaises(c, e)
  \/ \E c \in Callers : LogInfo(c)
  \/ \E c \in Callers : ExceptHandler(c)

Spec == Init /\ [][Next]_vars

----------------------------------------------------------------------------
\* Vocabulary of the properties

Done(c) == pc[c] = "done"

SignCalls(c) == SelectSeq(backend[c], LAMBDA r : r.op = "generate_signed_url")

ExistsCalls(c) == SelectSeq(backend[c], LAMBDA r : r.op = "exists")

ObjectFound(c) == existsRet[c] = Return(TRUE)

ObjectMissing(c) == existsRet[c] = Return(FALSE)

SigningFailed(c) == signRet[c].kind = "raise"

SigningSucceeded(c) == signRet[c].kind = "return"

IsUrl(v) == v.type = "str" /\ v.value # ""

ReturnedUrl(c) == outcome[c].kind = "return" /\ IsUrl(outcome[c].value)

ReturnedNone(c) == outcome[c] = Return(PyNone)

DefaultArguments(c) ==
  /\ inputs[c].expiration_minutes = NoArg
  /\ inputs[c].method = NoArg
  /\ inputs[c].content_type = NoArg

ContentTypeHeader(ct) == [type |-> "dict", items |-> {<<"Content-Type", ct>>}]

\* The upload verbs the signing backend supports.
WriteMethods == {PyStr("PUT"), PyStr("POST")}

----------------------------------------------------------------------------
\* C1: when the object exists and the signing primitive raises, the call
\* returns None and no exception reaches the caller.
SigningErrorAbsorbed ==
  \A c \in Callers :
    (Done(c) /\ ObjectFound(c) /\ SigningFailed(c)) => ReturnedNone(c)

\* C2: with default arguments, an existing object and a successful signing
\* call, the call returns the non-empty string the signing primitive produced.
DefaultCallReturnsSignedUrl ==
  \A c \in Callers :
    (Done(c) /\ DefaultArguments(c) /\ ObjectFound(c) /\ SigningSucceeded(c))
      => (ReturnedUrl(c) /\ outcome[c].value = signRet[c].value)

\* C3: for method GET and an object missing at check time, the call returns
\* None and the signing primitive is never invoked.
MissingObjectRefusedForGet ==
  \A c \in Callers :
    (Done(c) /\ Params(c).method = PyStr("GET") /\ ObjectMissing(c))
      => (ReturnedNone(c) /\ SignCalls(c) = <<>>)

\* C4: a PUT with a content type for an object that does not exist still
\* reaches the signing primitive and returns its URL when signing succeeds.
WriteIssuanceIgnoresExistence ==
  \A c \in Callers :
    (Done(c) /\ Params(c).method = PyStr("PUT") /\ Truthy(Params(c).content_type)
       /\ ObjectMissing(c))
      => /\ SignCalls(c) # <<>>
         /\ SigningSucceeded(c) => outcome[c] = Return(signRet[c].value)

\* C5 as stated: the headers passed to the signing primitive are
\* {Content-Type: content_type} when the method is a write method (PUT or a
\* similar upload verb) and a content type is supplied, and absent otherwise.
HeadersBoundForWriteMethods ==
  \A c \in Callers :
    \A i \in DOMAIN SignCalls(c) :
      SignCalls(c)[i].headers =
        IF Params(c).method \in WriteMethods /\ Truthy(Params(c).content_type)
        THEN ContentTypeHeader(Params(c).content_type)
        ELSE PyNone

\* C5 amended: the headers passed to the signing primitive are
\* {Content-Type: content_type} exactly when the method is the string 'PUT'
\* and content_type is a non-empty string, and None otherwise; for GET a
\* supplied content type never appears in the signing call.
HeadersBoundOnlyForPut ==
  \A c \in Callers :
    \A i \in DOMAIN SignCalls(c) :
      /\ SignCalls(c)[i].headers =
           IF inputs[c].method = PyStr("PUT") /\ inputs[c].content_type # NoArg
              /\ inputs[c].content_type # PyNone /\ inputs[c].content_type.value # ""
           THEN ContentTypeHeader(inputs[c].content_type)
           ELSE PyNone
      /\ inputs[c].method = NoArg => SignCalls(c)[i].headers = PyNone

\* C5 witness: one signing call carries the Content-Type header of a PUT and
\* another, for a GET given a content type, carries none.
HeadersWitness ==
  \E c, d \in Callers :
    /\ SignCalls(c) # <<>> /\ SignCalls(d) # <<>>
    /\ inputs[c].method = PyStr("PUT")
    /\ SignCalls(c)[1].headers = ContentTypeHeader(PyStr("image/png"))
    /\ inputs[d].method = NoArg /\ inputs[d].content_type = PyStr("image/png")
    /\ SignCalls(d)[1].headers = PyNone

\* C6: every call ends by returning a URL string or None, never by raising,
\* and makes each backend call at most once.
CallIsTotal ==
  \A c \in Callers :
    Done(c) => /\ ReturnedUrl(c) \/ ReturnedNone(c)
               /\ Len(ExistsCalls(c)) <= 1
               /\ Len(SignCalls(c)) <= 1

\* C7: a call that got an answer to its existence query emits exactly one log
\* record, of the level matching its outcome (warning: object missing, error:
\* signing failed, info: URL issued), and logging does not change what the
\* caller gets back.
OneLogRecordMatchingOutcome ==
  \A c \in Callers :
    (Done(c) /\ existsRet[c].kind = "return")
      => /\ Len(logs[c]) = 1
         /\ ObjectMissing(c) => (logs[c][1].level = "warning" /\ ReturnedNone(c))
         /\ SigningFailed(c) => (logs[c][1].level = "error" /\ ReturnedNone(c))
         /\ SigningSucceeded(c)
              => (logs[c][1].level = "info" /\ outcome[c] = Return(signRet[c].value))

\* C8: under every interleaving, the arguments of a call's signing request
\* are those computed from that call's own inputs, and two calls with the same
\* inputs and the same backend responses end the same way after the same
\* backend calls, whatever the other callers pass or do.
InvocationsIndependent ==
  /\ \A c \in Callers :
       \A i \in DOMAIN SignCalls(c) :
         SignCalls(c)[i] = SignRequest(BindArguments(inputs[c]))
  /\ \A c, d \in Callers :
       (Done(c) /\ Done(d) /\ inputs[c] = inputs[d]
          /\ existsRet[c] = existsRet[d] /\ signRet[c] = signRet[d])
         => (outcome[c] = outcome[d] /\ backend[c] = backend[d] /\ logs[c] = logs[d])

\* C8 witness: two calls with different methods and content types have both
\* signed while the other was in progress or finished.
IndependenceWitness ==
  \E c, d \in Callers :
    /\ c # d
    /\ SignCalls(c) # <<>> /\ SignCalls(d) # <<>>
    /\ inputs[c].method = PyStr("PUT") /\ inputs[c].content_type = PyStr("image/png")
    /\ inputs[d].method = NoArg /\ inputs[d].content_type = NoArg
    /\ inputs[c].expiration_minutes # inputs[d].expiration_minutes
    /\ Done(c) /\ Done(d)

UrlOnlyFromCheckedAndSigned ==
  \A c \in Callers :
    (Done(c) /\ existsRet[c].kind = "return") =>
      IF ReturnedUrl(c)
      THEN ObjectFound(c) /\ SigningSucceeded(c) /\ outcome[c].value = signRet[c].value
      ELSE ReturnedNone(c)

====
